---------------------------- MODULE Spec2Model ----------------------------
(***************************************************************************)
(* A model of the wiki-ngram pipeline of keyboard-data-forge:              *)
(*   download.rs  download_wikipedia                                       *)
(*   extract.rs   clean_wiki_markup, process_article, process_wikipedia    *)
(*   ngram.rs     extract_ngrams_from_tokens, prune_ngrams, filter_ngrams, *)
(*                build_fst                                                *)
(*   main.rs      main, run_dummy_mode                                     *)
(*   query_fst.rs the prefix-search consumer loop                          *)
(*                                                                         *)
(* Text handed to the markup cleaner and to the sentence segmenter is a    *)
(* sequence of characters, each a one-character string or the name of its  *)
(* code point.  Tokens and n-gram keys are sequences of byte values,       *)
(* because the order of keys (Rust's String::cmp, the order fst requires)  *)
(* is the lexicographic order of their UTF-8 bytes.                        *)
(*                                                                         *)
(* Each part of the pipeline has its own specification (SpecDownload,      *)
(* SpecReader, SpecArticle, SpecClean, SpecLink, SpecAccum, SpecScore,     *)
(* SpecIndex); the variables of the other parts stay at their idle values. *)
(***************************************************************************)
EXTENDS Integers, Sequences, FiniteSets, TLC

VARIABLES
    \* clean_wiki_markup (extract.rs:117-171)
    text,           \* the &str argument
    pos,            \* position of the `chars` iterator: index of the next char
    result,         \* the output String
    in_template,    \* template nesting depth
    in_link,        \* link flag
    clean_pc,       \* "idle" | "scan" | "done"
    \* the frequency table and its two mutators (ngram.rs:8-43)
    max_ngram,      \* Args::max_ngram, fixed for a run
    ngram_counts,   \* HashMap<String, usize>: a function from the keys present to counts
    prev_counts,    \* the table as it was when the last call started
    last_op,        \* the last call and its arguments
    calls,          \* number of calls made so far
    removed,        \* the keys prune_ngrams has removed so far
    \* process_article (extract.rs:93-115)
    article,        \* the &str argument
    next_piece,     \* position of the `split` iterator: index of the next piece
    segmented,      \* the sentences seen so far, and whether each went to the tokenizer
    article_pc,     \* "idle" | "loop" | "done"
    \* process_wikipedia (extract.rs:15-91)
    limit,          \* Args::limit: NoLimit or the cap
    in_text,        \* the flag
    current_text,   \* the accumulator String
    article_count,  \* articles processed
    reader_pc,      \* "idle" | "loop" | "done"
    reader_result,  \* "none" | "Ok" | "Err": what the function returned
    stopped,        \* "no" | "limit" | "eof" | "error": why the loop ended
    cleaning,       \* the call of clean_wiki_markup made in the last step, if any
    text_open,      \* an opening text tag was read and no closing text tag since
    since_open,     \* the fragments read inside the text element since it opened
    processed,      \* the cleaned texts given to process_article, in order
    \* download_wikipedia (download.rs:10-61)
    total_size,     \* the length of the archive on the server, in chunks
    cache_file,     \* the file at output_path: whether it exists, the chunks it holds
    downloaded,     \* the counter of the read loop
    download_pc,    \* "idle" | "ready" | "send" | "loop"
    download_result, \* what the last call returned: "none" | "cached" | "downloaded" | "Err"
    download_calls, \* calls made so far
    \* the score computation of filter_ngrams (ngram.rs:52-56) on two counts
    count1, count2, \* two counts
    score1, score2, \* their scores, once computed
    score_pc,       \* "idle" | "input" | "scored"
    \* main, run_dummy_mode, filter_ngrams and build_fst (main.rs, ngram.rs:45-78)
    mode,           \* "idle" | "main" | "dummy" | "direct": who builds the index
    min_frequency,  \* Args::min_frequency
    filtered,       \* the Vec returned by filter_ngrams
    data,           \* the slice given to build_fst
    next_insert,    \* position of the `for (key, value) in data` loop
    builder,        \* the MapBuilder: last key accepted and the entries written
    insert_calls,   \* calls of builder.insert made
    finish_called,  \* whether builder.finish() was called
    file,           \* the file at output_path
    builds,         \* builds started on output_path so far
    index_pc,       \* "idle" | "start" | "filtered" | "created" | "failed" | "sealed"
    \* the consumer of the sealed index (query_fst.rs:26-42, ngram_fst_test.rs:45-51)
    prefix,         \* the prefix searched
    stream,         \* the range cursor: the position of its next entry in the index
    entries,        \* the matches collected
    got_key, got,   \* the key of an exact lookup and what Map::get returned
    query_pc        \* "idle" | "loop" | "collected" | "sorted" | "got"

cleanVars == <<text, pos, result, in_template, in_link, clean_pc>>

accumVars == <<max_ngram, ngram_counts, prev_counts, last_op, calls, removed>>

articleVars == <<article, next_piece, segmented, article_pc>>

readerVars == <<limit, in_text, current_text, article_count, reader_pc, reader_result,
                stopped, cleaning, text_open, since_open, processed>>

downloadVars == <<total_size, cache_file, downloaded, download_pc, download_result,
                  download_calls>>

scoreVars == <<count1, count2, score1, score2, score_pc>>

indexVars == <<mode, min_frequency, filtered, data, next_insert, builder,
               insert_calls, finish_called, file, builds, index_pc>>

queryVars == <<prefix, stream, entries, got_key, got, query_pc>>

vars == <<text, pos, result, in_template, in_link, clean_pc,
          max_ngram, ngram_counts, prev_counts, last_op, calls, removed,
          article, next_piece, segmented, article_pc,
          limit, in_text, current_text, article_count, reader_pc, reader_result,
          stopped, cleaning, text_open, since_open, processed,
          total_size, cache_file, downloaded, download_pc, download_result, download_calls,
          count1, count2, score1, score2, score_pc,
          mode, min_frequency, filtered, data, next_insert, builder,
          insert_calls, finish_called, file, builds, index_pc,
          prefix, stream, entries, got_key, got, query_pc>>

---------------------------------------------------------------------------
(* Bounds *)

MaxTextLen == 5
MaxLinkPart == 2

\* tokens per sentence, n-gram size, calls on one table, pruning threshold
MaxTokens == 3
MaxNgram == 3
MaxCalls == 3
MaxThreshold == 2

\* characters of an article segmented on its own
MaxArticleLen == 4

\* the article cap, articles read, and fragments per text element
MaxLimit == 2
MaxArticles == 2
MaxFragments == 2

\* chunks of the archive, calls of download_wikipedia
MaxChunks == 4
MaxDownloadCalls == 3

\* largest count whose score is computed on its own
MaxScoreCount == 100

\* counts of the table given to filter_ngrams, min_frequency, and the length
\* and values of a slice given to build_fst directly
MaxCount == 3
MaxMinFrequency == 3
MaxData == 3
MaxValue == 1
MaxBuilds == 2
MaxRebuildData == 2

---------------------------------------------------------------------------
(* Generic helpers *)

RECURSIVE SeqsUpTo(_, _)
SeqsUpTo(S, n) ==
    IF n = 0 THEN {<<>>}
    ELSE LET shorter == SeqsUpTo(S, n - 1)
         IN  shorter \cup {Append(s, x) : s \in {t \in shorter : Len(t) = n - 1}, x \in S}

---------------------------------------------------------------------------
(* clean_wiki_markup: extract.rs:117-171 *)

\* The characters the scan distinguishes, and one ordinary character.
Chars == {"{", "}", "[", "]", "|", "a"}

NoChar == "none"

\* chars.peek() after chars.next() returned t[p]
Peek(t, p) == IF p + 1 <= Len(t) THEN t[p + 1] ELSE NoChar

\* extract.rs:162-167: whether the scanned character is pushed to result
KeepCharPlainOnly(ch, depth, link) ==
    \/ depth = 0 /\ ~link /\ ch \notin {"{", "}", "[", "]"}
    \/ link /\ ch # "[" /\ ch # "]"

KeepChar(ch, depth, link) ==
    \/ depth = 0 /\ ~link
    \/ link /\ ch # "[" /\ ch # "]"

\* One iteration of `while let Some(ch) = chars.next()` on scanner state st
CleanIter(t, st) ==
    LET ch == t[st.pos]
        pk == Peek(t, st.pos)
    IN  IF ch = "{" /\ pk = "{"
          THEN [st EXCEPT !.pos = @ + 2, !.in_template = @ + 1]
        ELSE IF ch = "}" /\ pk = "}"
          THEN [st EXCEPT !.pos = @ + 2,
                          !.in_template = IF @ > 0 THEN @ - 1 ELSE @]
        ELSE IF ch = "[" /\ pk = "["
          THEN [st EXCEPT !.pos = @ + 2, !.in_link = TRUE]
        ELSE IF ch = "]" /\ pk = "]"
          THEN [st EXCEPT !.pos = @ + 2, !.in_link = FALSE]
        ELSE IF ch = "|" /\ st.in_link
          THEN [st EXCEPT !.pos = @ + 1]
        ELSE IF KeepChar(ch, st.in_template, st.in_link)
          THEN [st EXCEPT !.pos = @ + 1, !.result = Append(@, ch)]
          ELSE [st EXCEPT !.pos = @ + 1]

CleanStart == [pos |-> 1, result |-> <<>>, in_template |-> 0, in_link |-> FALSE]

RECURSIVE CleanRun(_, _)
CleanRun(t, st) ==
    IF st.pos > Len(t) THEN st.result ELSE CleanRun(t, CleanIter(t, st))

\* The whole function
clean_wiki_markup(t) == CleanRun(t, CleanStart)

CleanIdle ==
    /\ text = <<>>
    /\ pos = 1
    /\ result = <<>>
    /\ in_template = 0
    /\ in_link = FALSE
    /\ clean_pc = "idle"

CleanInit ==
    /\ text \in SeqsUpTo(Chars, MaxTextLen)
    /\ pos = 1
    /\ result = <<>>
    /\ in_template = 0
    /\ in_link = FALSE
    /\ clean_pc = "scan"

\* characters of a link target and of its display text: none of them a
\* brace, a bracket or a pipe
LinkChars == {"a", "b"}

LinkParts == SeqsUpTo(LinkChars, MaxLinkPart)

\* the piped link [[target|display]]
PipedLink(target, display) == <<"[", "[">> \o target \o <<"|">> \o display \o <<"]", "]">>

\* clean_wiki_markup called on a piped link
LinkInit ==
    /\ \E target \in LinkParts, display \in LinkParts :
          text = PipedLink(target, display)
    /\ pos = 1
    /\ result = <<>>
    /\ in_template = 0
    /\ in_link = FALSE
    /\ clean_pc = "scan"

CleanScan ==
    /\ clean_pc = "scan"
    /\ pos <= Len(text)
    /\ LET st == CleanIter(text, [pos |-> pos, result |-> result,
                                  in_template |-> in_template, in_link |-> in_link])
       IN  /\ pos' = st.pos
           /\ result' = st.result
           /\ in_template' = st.in_template
           /\ in_link' = st.in_link
    /\ UNCHANGED <<text, clean_pc>>
    /\ UNCHANGED <<accumVars, scoreVars, indexVars, queryVars, articleVars, readerVars, downloadVars>>

CleanReturn ==
    /\ clean_pc = "scan"
    /\ pos > Len(text)
    /\ clean_pc' = "done"
    /\ UNCHANGED <<text, pos, result, in_template, in_link>>
    /\ UNCHANGED <<accumVars, scoreVars, indexVars, queryVars, articleVars, readerVars, downloadVars>>

---------------------------------------------------------------------------
(* The frequency table: ngram.rs:8-43, extract.rs:106-113 *)

\* Two token surfaces, "a" and "b", as UTF-8 bytes
TokenSet == {<<97>>, <<98>>}

\* The separator of window.join(" ")
Space == 32

\* extract.rs:102: sentence.len() < 3
MinSentenceLen == 3

\* ngram.rs:20: window.join(" ")
RECURSIVE Join(_)
Join(window) ==
    IF Len(window) = 0 THEN <<>>
    ELSE IF Len(window) = 1 THEN window[1]
    ELSE window[1] \o <<Space>> \o Join(Tail(window))

CountOf(table, key) == IF key \in DOMAIN table THEN table[key] ELSE 0

\* ngram.rs:21: *ngram_counts.entry(ngram).or_insert(0) += 1
IncrementOverwrite(table, key) ==
    [k \in DOMAIN table \cup {key} |-> IF k = key THEN 1 ELSE table[k]]

Increment(table, key) ==
    [k \in DOMAIN table \cup {key} |->
        IF k = key THEN CountOf(table, key) + 1 ELSE table[k]]

\* ngram.rs:19-22: for window in tokens.windows(n), from window i on
RECURSIVE ExtractWindows(_, _, _, _)
ExtractWindows(tokens, n, i, table) ==
    IF i + n - 1 > Len(tokens) THEN table
    ELSE ExtractWindows(tokens, n, i + 1,
                        Increment(table, Join(SubSeq(tokens, i, i + n - 1))))

\* ngram.rs:14-23: for n in 2..=max_ngram, from n on
RECURSIVE ExtractFrom(_, _, _, _)
ExtractFrom(tokens, n, max_n, table) ==
    IF n > max_n THEN table
    ELSE IF Len(tokens) < n THEN ExtractFrom(tokens, n + 1, max_n, table)
    ELSE ExtractFrom(tokens, n + 1, max_n, ExtractWindows(tokens, n, 1, table))

extract_ngrams_from_tokens(tokens, max_n, table) ==
    ExtractFrom(tokens, 2, max_n, table)

\* ngram.rs:26-43
prune_ngrams_keep_ones(table, threshold_size) ==
    IF Cardinality(DOMAIN table) <= threshold_size THEN table
    ELSE [k \in {x \in DOMAIN table : table[x] > 0} |-> table[k]]

prune_ngrams_below_three(table, threshold_size) ==
    IF Cardinality(DOMAIN table) <= threshold_size THEN table
    ELSE [k \in {x \in DOMAIN table : table[x] > 2} |-> table[k]]

prune_ngrams(table, threshold_size) ==
    IF Cardinality(DOMAIN table) <= threshold_size THEN table
    ELSE [k \in {x \in DOMAIN table : table[x] > 1} |-> table[k]]

NoOp == [op |-> "none", tokens |-> <<>>, threshold_size |-> 0]

AccumIdle ==
    /\ max_ngram = 0
    /\ ngram_counts = <<>>
    /\ prev_counts = <<>>
    /\ last_op = NoOp
    /\ calls = 0
    /\ removed = {}

\* main.rs:21-23 and HashMap::new() (extract.rs:27)
AccumInit ==
    /\ max_ngram \in 0..MaxNgram
    /\ ngram_counts = <<>>
    /\ prev_counts = <<>>
    /\ last_op = NoOp
    /\ calls = 0
    /\ removed = {}

\* extract.rs:106-113: one sentence of process_article, tokenized to `tokens`
ProcessSentence ==
    /\ calls < MaxCalls
    /\ \E tokens \in SeqsUpTo(TokenSet, MaxTokens) :
          /\ ngram_counts' = IF Len(tokens) < 2 THEN ngram_counts
                             ELSE extract_ngrams_from_tokens(tokens, max_ngram, ngram_counts)
          /\ last_op' = [op |-> "extract", tokens |-> tokens, threshold_size |-> 0]
    /\ prev_counts' = ngram_counts
    /\ calls' = calls + 1
    /\ UNCHANGED <<max_ngram, removed>>
    /\ UNCHANGED <<cleanVars, scoreVars, indexVars, queryVars, articleVars, readerVars, downloadVars>>

\* a call of prune_ngrams by the orchestrating caller
PruneNgrams ==
    /\ calls < MaxCalls
    /\ \E threshold_size \in 0..MaxThreshold :
          /\ ngram_counts' = prune_ngrams(ngram_counts, threshold_size)
          /\ last_op' = [op |-> "prune", tokens |-> <<>>, threshold_size |-> threshold_size]
    /\ prev_counts' = ngram_counts
    /\ removed' = removed \cup (DOMAIN ngram_counts \ DOMAIN ngram_counts')
    /\ calls' = calls + 1
    /\ UNCHANGED max_ngram
    /\ UNCHANGED <<cleanVars, scoreVars, indexVars, queryVars, articleVars, readerVars, downloadVars>>

---------------------------------------------------------------------------
(* The sentence segmenter: process_article, extract.rs:93-115.  A character *)
(* is a one-character string, or the name of its code point when it is not *)
(* ASCII: "U+65E5" is the ideograph of "day", "U+3002" the ideographic full *)
(* stop.  str::len counts the bytes of the UTF-8 encoding.                  *)

\* the UTF-8 encoding of a character
Utf8(ch) ==
    CASE ch = "a" -> <<97>>
      [] ch = "b" -> <<98>>
      [] ch = " " -> <<32>>
      [] ch = "\n" -> <<10>>
      [] ch = "." -> <<46>>
      [] ch = "&" -> <<38>>
      [] ch = "{" -> <<123>>
      [] ch = "}" -> <<125>>
      [] ch = "[" -> <<91>>
      [] ch = "]" -> <<93>>
      [] ch = "|" -> <<124>>
      [] ch = "U+65E5" -> <<230, 151, 165>>
      [] ch = "U+3002" -> <<227, 128, 130>>
      [] ch = "U+FF01" -> <<239, 188, 129>>
      [] ch = "U+FF1F" -> <<239, 188, 159>>
      [] ch = "U+3000" -> <<227, 128, 128>>

\* extract.rs:100: the characters the text is split on
Separators == {"U+3002", "\n", ".", "U+FF01", "U+FF1F"}

\* the characters str::trim removes (char::is_whitespace), those of the model
Whitespace == {" ", "\n", "U+3000"}

\* extract.rs:100: text.split(..) from position i on, `piece` being the piece
\* collected so far; the pieces between separators, empty ones included
RECURSIVE SplitFrom(_, _, _)
SplitFrom(t, i, piece) ==
    IF i > Len(t) THEN <<piece>>
    ELSE IF t[i] \in Separators THEN <<piece>> \o SplitFrom(t, i + 1, <<>>)
    ELSE SplitFrom(t, i + 1, Append(piece, t[i]))

Split(t) == SplitFrom(t, 1, <<>>)

RECURSIVE TrimStart(_)
TrimStart(s) ==
    IF s # <<>> /\ s[1] \in Whitespace THEN TrimStart(Tail(s)) ELSE s

RECURSIVE TrimEnd(_)
TrimEnd(s) ==
    IF s # <<>> /\ s[Len(s)] \in Whitespace THEN TrimEnd(SubSeq(s, 1, Len(s) - 1)) ELSE s

\* extract.rs:101: sentence.trim()
Trim(s) == TrimEnd(TrimStart(s))

\* str::len: the number of bytes
RECURSIVE ByteLen(_)
ByteLen(s) == IF s = <<>> THEN 0 ELSE Len(Utf8(s[1])) + ByteLen(Tail(s))

\* extract.rs:102-104: the sentence is skipped
TooShort(sentence) == ByteLen(sentence) < MinSentenceLen

\* tokenize.rs:23-34: the surfaces the tokenizer returns, as UTF-8 bytes.
\* The dictionary decides the segmentation; here every character is a token.
tokenize_text(sentence) == [i \in 1..Len(sentence) |-> Utf8(sentence[i])]

\* extract.rs:101-113: the body of the loop for one piece of the split
ProcessPiece(piece, max_n, table) ==
    LET sentence == Trim(piece)
        tokens == tokenize_text(sentence)
    IN  IF TooShort(sentence) THEN table
        ELSE IF Len(tokens) < 2 THEN table
        ELSE extract_ngrams_from_tokens(tokens, max_n, table)

\* extract.rs:100-114: the loop from piece i on
RECURSIVE ProcessPieces(_, _, _, _)
ProcessPieces(pieces, i, max_n, table) ==
    IF i > Len(pieces) THEN table
    ELSE ProcessPieces(pieces, i + 1, max_n, ProcessPiece(pieces[i], max_n, table))

\* extract.rs:93-115
process_article_pruning(t, max_n, table) ==
    ProcessPieces(Split(t), 1, max_n, prune_ngrams(table, 0))

process_article(t, max_n, table) == ProcessPieces(Split(t), 1, max_n, table)

\* the characters of an article given to process_article on its own
ArticleChars == {"a", " ", ".", "U+65E5"}

ArticleIdle ==
    /\ article = <<>>
    /\ next_piece = 1
    /\ segmented = <<>>
    /\ article_pc = "idle"

ArticleInit ==
    /\ article \in SeqsUpTo(ArticleChars, MaxArticleLen)
    /\ next_piece = 1
    /\ segmented = <<>>
    /\ article_pc = "loop"

\* extract.rs:100-114: one iteration of `for sentence in text.split(..)`
ArticleStep ==
    /\ article_pc = "loop"
    /\ next_piece <= Len(Split(article))
    /\ LET piece == Split(article)[next_piece]
       IN  /\ ngram_counts' = ProcessPiece(piece, max_ngram, ngram_counts)
           /\ segmented' = Append(segmented, [sentence |-> Trim(piece),
                                              tokenized |-> ~TooShort(Trim(piece))])
    /\ next_piece' = next_piece + 1
    /\ UNCHANGED <<article, article_pc>>
    /\ UNCHANGED <<max_ngram, prev_counts, last_op, calls, removed>>
    /\ UNCHANGED <<cleanVars, scoreVars, indexVars, queryVars, readerVars, downloadVars>>

\* extract.rs:115: the loop is over
ArticleReturn ==
    /\ article_pc = "loop"
    /\ next_piece > Len(Split(article))
    /\ article_pc' = "done"
    /\ UNCHANGED <<article, next_piece, segmented>>
    /\ UNCHANGED <<cleanVars, accumVars, scoreVars, indexVars, queryVars, readerVars, downloadVars>>

---------------------------------------------------------------------------
(* The corpus reader: process_wikipedia, extract.rs:15-91.  Each step reads *)
(* one event of the XML stream; the stream is any sequence of events.  A    *)
(* text fragment is a sequence of characters and entity references.         *)

\* element names: the one the reader looks for, and another
TagNames == {"text", "page"}

\* the content of the Text events of the stream
Fragments == {<<"a", "&amp;", "b", ".">>, <<"a", "b", "a", "{", "{">>, <<"&bad;", "a">>}

\* entity references BytesText::unescape does not know
BadEntities == {"&bad;"}

\* extract.rs:73: e.unescape(): Err on an unknown entity reference, else the
\* text with its references replaced
Unescape(f) ==
    IF \E i \in 1..Len(f) : f[i] \in BadEntities
    THEN [ok |-> FALSE, text |-> <<>>]
    ELSE [ok |-> TRUE, text |-> [i \in 1..Len(f) |-> IF f[i] = "&amp;" THEN "&" ELSE f[i]]]

\* main.rs:45-47: limit is None
NoLimit == -1

\* extract.rs:45-46
OnStartTextKeeping(cur) == cur

OnStartText(cur) == <<>>

\* extract.rs:72-76
OnText(inside, cur, f) ==
    IF inside /\ Unescape(f).ok THEN cur \o Unescape(f).text ELSE cur

\* extract.rs:63-67
LimitReached(count, lim) == lim # NoLimit /\ count >= lim

\* extract.rs:79-82, 90: the warning, break, and the return after the loop
OnErrPropagated == [pc |-> "done", result |-> "Err"]

OnErr == [pc |-> "done", result |-> "Ok"]

\* no call of clean_wiki_markup was made in the last step
NoCleaning == [called |-> FALSE, text |-> <<>>]

ReaderIdle ==
    /\ limit = NoLimit
    /\ in_text = FALSE
    /\ current_text = <<>>
    /\ article_count = 0
    /\ reader_pc = "idle"
    /\ reader_result = "none"
    /\ stopped = "no"
    /\ cleaning = NoCleaning
    /\ text_open = FALSE
    /\ since_open = <<>>
    /\ processed = <<>>

\* extract.rs:15-31
ReaderInit ==
    /\ limit \in {NoLimit} \cup (0..MaxLimit)
    /\ in_text = FALSE
    /\ current_text = <<>>
    /\ article_count = 0
    /\ reader_pc = "loop"
    /\ reader_result = "none"
    /\ stopped = "no"
    /\ cleaning = NoCleaning
    /\ text_open = FALSE
    /\ since_open = <<>>
    /\ processed = <<>>

\* extract.rs:42-47: Event::Start
ReadStart ==
    /\ reader_pc = "loop"
    /\ \E name \in TagNames :
          IF name = "text"
          THEN /\ in_text' = TRUE
               /\ current_text' = OnStartText(current_text)
               /\ text_open' = TRUE
               /\ since_open' = <<>>
          ELSE UNCHANGED <<in_text, current_text, text_open, since_open>>
    /\ cleaning' = NoCleaning
    /\ UNCHANGED <<limit, article_count, reader_pc, reader_result, stopped, processed>>
    /\ UNCHANGED <<cleanVars, accumVars, articleVars, scoreVars, indexVars, queryVars, downloadVars>>

\* extract.rs:48-70: Event::End
ReadEnd ==
    /\ reader_pc = "loop"
    /\ \E name \in TagNames :
          /\ text_open' = IF name = "text" THEN FALSE ELSE text_open
          /\ IF name = "text" /\ in_text
             THEN LET clean_text == clean_wiki_markup(current_text)
                  IN  /\ article_count < MaxArticles
                      /\ in_text' = FALSE
                      /\ cleaning' = [called |-> TRUE, text |-> current_text]
                      /\ IF clean_text # <<>>
                         THEN /\ ngram_counts' = process_article(clean_text, max_ngram, ngram_counts)
                              /\ article_count' = article_count + 1
                              /\ processed' = Append(processed, clean_text)
                              /\ IF LimitReached(article_count + 1, limit)
                                 THEN /\ reader_pc' = "done"
                                      /\ reader_result' = "Ok"
                                      /\ stopped' = "limit"
                                 ELSE UNCHANGED <<reader_pc, reader_result, stopped>>
                         ELSE UNCHANGED <<ngram_counts, article_count, processed,
                                          reader_pc, reader_result, stopped>>
             ELSE /\ cleaning' = NoCleaning
                  /\ UNCHANGED <<in_text, ngram_counts, article_count, processed,
                                 reader_pc, reader_result, stopped>>
    /\ UNCHANGED <<limit, current_text, since_open>>
    /\ UNCHANGED <<max_ngram, prev_counts, last_op, calls, removed>>
    /\ UNCHANGED <<cleanVars, articleVars, scoreVars, indexVars, queryVars, downloadVars>>

\* extract.rs:71-77: Event::Text
ReadText ==
    /\ reader_pc = "loop"
    /\ \E f \in Fragments :
          /\ text_open => Len(since_open) < MaxFragments
          /\ current_text' = OnText(in_text, current_text, f)
          /\ since_open' = IF text_open THEN Append(since_open, f) ELSE since_open
    /\ cleaning' = NoCleaning
    /\ UNCHANGED <<limit, in_text, article_count, reader_pc, reader_result, stopped,
                   text_open, processed>>
    /\ UNCHANGED <<cleanVars, accumVars, articleVars, scoreVars, indexVars, queryVars, downloadVars>>

\* extract.rs:78, 90: Event::Eof
ReadEof ==
    /\ reader_pc = "loop"
    /\ reader_pc' = "done"
    /\ reader_result' = "Ok"
    /\ stopped' = "eof"
    /\ cleaning' = NoCleaning
    /\ UNCHANGED <<limit, in_text, current_text, article_count, text_open, since_open,
                   processed>>
    /\ UNCHANGED <<cleanVars, accumVars, articleVars, scoreVars, indexVars, queryVars, downloadVars>>

\* extract.rs:79-82, 90: Err(e)
ReadErr ==
    /\ reader_pc = "loop"
    /\ reader_pc' = OnErr.pc
    /\ reader_result' = OnErr.result
    /\ stopped' = "error"
    /\ cleaning' = NoCleaning
    /\ UNCHANGED <<limit, in_text, current_text, article_count, text_open, since_open,
                   processed>>
    /\ UNCHANGED <<cleanVars, accumVars, articleVars, scoreVars, indexVars, queryVars, downloadVars>>

\* extract.rs:83: any other event (Empty, CData, Comment, Decl, PI, DocType)
ReadOther ==
    /\ reader_pc = "loop"
    /\ cleaning' = NoCleaning
    /\ UNCHANGED <<limit, in_text, current_text, article_count, reader_pc, reader_result,
                   stopped, text_open, since_open, processed>>
    /\ UNCHANGED <<cleanVars, accumVars, articleVars, scoreVars, indexVars, queryVars, downloadVars>>

---------------------------------------------------------------------------
(* The corpus source: download_wikipedia, download.rs:10-61.  The archive   *)
(* is total_size chunks long; the cache file holds a number of them.        *)

\* download.rs:14: no file at output_path
NoCacheFile == [exists |-> FALSE, chunks |-> 0]

DownloadIdle ==
    /\ total_size = 0
    /\ cache_file = NoCacheFile
    /\ downloaded = 0
    /\ download_pc = "idle"
    /\ download_result = "none"
    /\ download_calls = 0

\* an empty cache directory and an archive on the server
DownloadInit ==
    /\ total_size \in 1..MaxChunks
    /\ cache_file = NoCacheFile
    /\ downloaded = 0
    /\ download_pc = "ready"
    /\ download_result = "none"
    /\ download_calls = 0

\* download.rs:10-20: a call; the cached path is returned when the file exists
DownloadCall ==
    /\ download_pc = "ready"
    /\ download_calls < MaxDownloadCalls
    /\ download_calls' = download_calls + 1
    /\ IF cache_file.exists
       THEN /\ download_result' = "cached"
            /\ UNCHANGED download_pc
       ELSE /\ download_result' = "none"
            /\ download_pc' = "send"
    /\ UNCHANGED <<total_size, cache_file, downloaded>>
    /\ UNCHANGED <<cleanVars, accumVars, articleVars, readerVars, scoreVars, indexVars, queryVars>>

\* download.rs:25-29: send() fails or the response has no content length
SendFails ==
    /\ download_pc = "send"
    /\ download_result' = "Err"
    /\ download_pc' = "ready"
    /\ UNCHANGED <<total_size, cache_file, downloaded, download_calls>>
    /\ UNCHANGED <<cleanVars, accumVars, articleVars, readerVars, scoreVars, indexVars, queryVars>>

\* download.rs:25-40: the response arrives and File::create makes the file
CreateOutput ==
    /\ download_pc = "send"
    /\ cache_file' = [exists |-> TRUE, chunks |-> 0]
    /\ downloaded' = 0
    /\ download_pc' = "loop"
    /\ UNCHANGED <<total_size, download_result, download_calls>>
    /\ UNCHANGED <<cleanVars, accumVars, articleVars, readerVars, scoreVars, indexVars, queryVars>>

\* download.rs:43-48: a chunk is read and written
ReadChunk ==
    /\ download_pc = "loop"
    /\ downloaded < total_size
    /\ cache_file' = [cache_file EXCEPT !.chunks = @ + 1]
    /\ downloaded' = downloaded + 1
    /\ UNCHANGED <<total_size, download_pc, download_result, download_calls>>
    /\ UNCHANGED <<cleanVars, accumVars, articleVars, readerVars, scoreVars, indexVars, queryVars>>

\* download.rs:43, 47: response.read or file.write_all returns an error
TransferFails ==
    /\ download_pc = "loop"
    /\ downloaded < total_size
    /\ download_result' = "Err"
    /\ download_pc' = "ready"
    /\ UNCHANGED <<total_size, cache_file, downloaded, download_calls>>
    /\ UNCHANGED <<cleanVars, accumVars, articleVars, readerVars, scoreVars, indexVars, queryVars>>

\* download.rs:44-46, 57-60: the body is over
DownloadComplete ==
    /\ download_pc = "loop"
    /\ downloaded = total_size
    /\ download_result' = "downloaded"
    /\ download_pc' = "ready"
    /\ UNCHANGED <<total_size, cache_file, downloaded, download_calls>>
    /\ UNCHANGED <<cleanVars, accumVars, articleVars, readerVars, scoreVars, indexVars, queryVars>>

---------------------------------------------------------------------------
(* The score: ngram.rs:52-56                                               *)
(*   let log_score = (count as f64).ln() * 1000.0;  log_score as u64       *)
(* The natural logarithm is computed in fixed point with 8 decimals, every *)
(* intermediate value within 32 bits: count = 2^k * m with 1 <= m < 2,     *)
(* ln(count) = k*ln(2) + 2*atanh(z), z = (m-1)/(m+1) <= 1/3, the series of *)
(* atanh summed to the term z^19/19.  The truncated result equals the f64  *)
(* computation for every count from 1 to 15583.                            *)

\* 1.0 and ln(2) with 8 decimals; the limb of the two-limb product
FixedOne == 100000000
Ln2Fixed == 69314718
Limb == 10000
AtanhTerms == 9

\* a*b for fixed-point a, b < 1.0
MulFixed(a, b) ==
    LET a1 == a \div Limb
        a0 == a % Limb
        b1 == b \div Limb
        b0 == b % Limb
    IN  a1 * b1 + ((a1 * b0 + a0 * b1) \div Limb) + ((a0 * b0) \div FixedOne)

\* n/d as a fixed-point number, for 0 <= n < d
DivFixed(n, d) ==
    LET q1 == (n * Limb) \div d
        r1 == (n * Limb) % d
    IN  q1 * Limb + ((r1 * Limb) \div d)

RECURSIVE FloorLog2(_)
FloorLog2(c) == IF c < 2 THEN 0 ELSE 1 + FloorLog2(c \div 2)

RECURSIVE Pow2(_)
Pow2(k) == IF k = 0 THEN 1 ELSE 2 * Pow2(k - 1)

\* z^(2j+1)/(2j+1) + ... up to j = AtanhTerms, given pw = z^(2j+1)
RECURSIVE AtanhSeries(_, _, _)
AtanhSeries(pw, z2, j) ==
    IF j > AtanhTerms THEN 0
    ELSE (pw \div (2 * j + 1)) + AtanhSeries(MulFixed(pw, z2), z2, j + 1)

\* (count as f64).ln(), for count >= 1
LnFixed(count) ==
    LET k == FloorLog2(count)
        p == Pow2(k)
        z == DivFixed(count - p, count + p)
    IN  k * Ln2Fixed + 2 * AtanhSeries(z, MulFixed(z, z), 0)

\* ngram.rs:54-55; ln(0) is -inf, which `as u64` saturates to 0
ScoreSmoothed(count) == LnFixed(count + 1) \div (FixedOne \div 1000)

ScoreTruncatedFirst(count) ==
    IF count = 0 THEN 0 ELSE (LnFixed(count) \div FixedOne) * 1000

Score(count) ==
    IF count = 0 THEN 0 ELSE LnFixed(count) \div (FixedOne \div 1000)

ScoreIdle ==
    /\ count1 = 0
    /\ count2 = 0
    /\ score1 = 0
    /\ score2 = 0
    /\ score_pc = "idle"

\* two counts a table can hold
ScoreInit ==
    /\ count1 \in 1..MaxScoreCount
    /\ count2 \in 1..MaxScoreCount
    /\ score1 = 0
    /\ score2 = 0
    /\ score_pc = "input"

\* the map closure of filter_ngrams applied to both counts
ScoreBoth ==
    /\ score_pc = "input"
    /\ score1' = Score(count1)
    /\ score2' = Score(count2)
    /\ score_pc' = "scored"
    /\ UNCHANGED <<count1, count2>>
    /\ UNCHANGED <<cleanVars, accumVars, indexVars, queryVars, articleVars, readerVars, downloadVars>>

---------------------------------------------------------------------------
(* filter_ngrams, build_fst, run_dummy_mode: ngram.rs:45-78, main.rs:99-122 *)

\* The keys of the tables filtered and of the slices built directly:
\* "a a", "a a a", "a b", "b a"
KeyUniverse == {Join(w) : w \in {<<<<97>>, <<97>>>>, <<<<97>>, <<97>>, <<97>>>>,
                                 <<<<97>>, <<98>>>>, <<<<98>>, <<97>>>>}}

Min(a, b) == IF a < b THEN a ELSE b

\* String::cmp and fst's key order: lexicographic on the bytes
KeyLess(a, b) ==
    \/ \E i \in 1..Min(Len(a), Len(b)) :
          /\ \A j \in 1..(i - 1) : a[j] = b[j]
          /\ a[i] < b[i]
    \/ /\ Len(a) < Len(b)
       /\ \A j \in 1..Len(a) : a[j] = b[j]

\* ngram.rs:51
KeepInclusive(count, min_freq) == count >= min_freq

Keep(count, min_freq) == count > min_freq

\* ngram.rs:49-57: iter().filter(..).map(..).collect(), the map iterated in
\* the order `order` (a sequence of its keys), from position i on
RECURSIVE FilterMap(_, _, _, _)
FilterMap(table, min_freq, order, i) ==
    IF i > Len(order) THEN <<>>
    ELSE LET key == order[i]
             tail == FilterMap(table, min_freq, order, i + 1)
         IN  IF Keep(table[key], min_freq)
             THEN <<<<key, Score(table[key])>>>> \o tail
             ELSE tail

\* insertion of pair e into a sequence sorted by key, after the pairs with
\* an equal key (the sort is stable)
RECURSIVE InsertSorted(_, _)
InsertSorted(sorted, e) ==
    IF sorted = <<>> THEN <<e>>
    ELSE IF KeyLess(e[1], Head(sorted)[1]) THEN <<e>> \o sorted
    ELSE <<Head(sorted)>> \o InsertSorted(Tail(sorted), e)

RECURSIVE SortFrom(_, _, _)
SortFrom(pairs, i, sorted) ==
    IF i > Len(pairs) THEN sorted
    ELSE SortFrom(pairs, i + 1, InsertSorted(sorted, pairs[i]))

\* ngram.rs:60, main.rs:112: sort_by(|a, b| a.0.cmp(&b.0))
SortSkipped(pairs) == pairs

SortByKey(pairs) == SortFrom(pairs, 1, <<>>)

\* ngram.rs:45-63
filter_ngrams(table, min_freq, order) ==
    SortByKey(FilterMap(table, min_freq, order, 1))

\* the orders in which a HashMap with key set S can be iterated
Orders(S) ==
    {o \in [1..Cardinality(S) -> S] : \A i, j \in 1..Cardinality(S) : o[i] = o[j] => i = j}

\* main.rs:107-111: "今日 は", "こんにちは 世界", "おはよう ございます" in UTF-8
DummyData ==
    << <<<<228, 187, 138, 230, 151, 165, 32, 227, 129, 175>>, 1000>>,
       <<<<227, 129, 147, 227, 130, 147, 227, 129, 171, 227, 129, 161, 227, 129, 175,
           32, 228, 184, 150, 231, 149, 140>>, 800>>,
       <<<<227, 129, 138, 227, 129, 175, 227, 130, 136, 227, 129, 134, 32,
           227, 129, 148, 227, 129, 150, 227, 129, 132, 227, 129, 190, 227, 129, 153>>, 600>> >>

NoKey == <<-1>>

NewBuilder == [last |-> NoKey, written |-> <<>>]

NoFile == [exists |-> FALSE, sealed |-> FALSE, written |-> <<>>]

\* fst::MapBuilder::insert as called at ngram.rs:71 and main.rs:116: a key
\* not strictly greater than the last one is refused
BuilderAccepts(b, key) == b.last = NoKey \/ KeyLess(b.last, key)

\* ngram.rs:71: insert(key.as_bytes(), *value)
BuilderInsertNext(b, key, value) ==
    [last |-> key, written |-> Append(b.written, <<key, value + 1>>)]

BuilderInsert(b, key, value) ==
    [last |-> key, written |-> Append(b.written, <<key, value>>)]

\* ngram.rs:71: the `?` after insert: where the loop goes
AfterInsertIgnoringError(accepted) == "created"

AfterInsert(accepted) == IF accepted THEN "created" ELSE "failed"

IndexIdle ==
    /\ mode = "idle"
    /\ min_frequency = 0
    /\ filtered = <<>>
    /\ data = <<>>
    /\ next_insert = 1
    /\ builder = NewBuilder
    /\ insert_calls = 0
    /\ finish_called = FALSE
    /\ file = NoFile
    /\ builds = 0
    /\ index_pc = "idle"

\* the tables process_wikipedia can return over KeyUniverse: counts >= 1
Tables == UNION {[S -> 1..MaxCount] : S \in SUBSET KeyUniverse}

\* the slices a caller can give to build_fst
Slices == SeqsUpTo(KeyUniverse \X (0..MaxValue), MaxData)

\* the slices of a later build on the same path
RebuildSlices == SeqsUpTo(KeyUniverse \X {MaxValue}, MaxRebuildData)

IndexInit ==
    /\ \/ /\ mode = "main"
          /\ ngram_counts \in Tables
          /\ min_frequency \in 0..MaxMinFrequency
          /\ data = <<>>
       \/ /\ mode = "dummy"
          /\ ngram_counts = <<>>
          /\ min_frequency = 0
          /\ data = <<>>
       \/ /\ mode = "direct"
          /\ ngram_counts = <<>>
          /\ min_frequency = 0
          /\ data \in Slices
    /\ max_ngram = 0
    /\ prev_counts = ngram_counts
    /\ last_op = NoOp
    /\ calls = 0
    /\ removed = {}
    /\ filtered = <<>>
    /\ next_insert = 1
    /\ builder = NewBuilder
    /\ insert_calls = 0
    /\ finish_called = FALSE
    /\ file = NoFile
    /\ builds = 0
    /\ index_pc = "start"

\* main.rs:85: filter_ngrams(&ngram_counts, args.min_frequency)
FilterNgrams ==
    /\ mode = "main"
    /\ index_pc = "start"
    /\ \E order \in Orders(DOMAIN ngram_counts) :
          filtered' = filter_ngrams(ngram_counts, min_frequency, order)
    /\ index_pc' = "filtered"
    /\ UNCHANGED <<mode, min_frequency, data, next_insert, builder, insert_calls,
                   finish_called, file, builds>>
    /\ UNCHANGED <<cleanVars, accumVars, scoreVars, queryVars, articleVars, readerVars, downloadVars>>

\* ngram.rs:66-68, main.rs:114: File::create truncates or creates the file
CreateFile(d) ==
    /\ data' = d
    /\ file' = [exists |-> TRUE, sealed |-> FALSE, written |-> <<>>]
    /\ builder' = NewBuilder
    /\ next_insert' = 1
    /\ index_pc' = "created"
    /\ builds' = builds + 1
    /\ UNCHANGED <<mode, min_frequency, filtered, insert_calls, finish_called>>
    /\ UNCHANGED <<cleanVars, accumVars, scoreVars, queryVars, articleVars, readerVars, downloadVars>>

\* main.rs:91: build_fst(&filtered, &args.output)
BuildFstMain ==
    /\ mode = "main"
    /\ index_pc = "filtered"
    /\ CreateFile(filtered)

\* a call of build_fst on any slice
BuildFstDirect ==
    /\ mode = "direct"
    /\ index_pc = "start"
    /\ CreateFile(data)

\* main.rs:107-114
RunDummyMode ==
    /\ mode = "dummy"
    /\ index_pc = "start"
    /\ CreateFile(SortByKey(DummyData))

\* a later run of the program with --dummy-mode and the same --output
\* (main.rs:56-58, 107-114): File::create opens the existing file and
\* truncates it
RunDummyModeAgain ==
    /\ index_pc = "sealed"
    /\ query_pc = "idle"
    /\ builds < MaxBuilds
    /\ mode' = "dummy"
    /\ data' = SortByKey(DummyData)
    /\ file' = [exists |-> TRUE, sealed |-> FALSE, written |-> <<>>]
    /\ builder' = NewBuilder
    /\ next_insert' = 1
    /\ insert_calls' = 0
    /\ finish_called' = FALSE
    /\ builds' = builds + 1
    /\ index_pc' = "created"
    /\ UNCHANGED <<min_frequency, filtered>>
    /\ UNCHANGED <<cleanVars, accumVars, scoreVars, queryVars, articleVars, readerVars, downloadVars>>

\* a later call of build_fst on the same output_path (ngram.rs:66), with a
\* slice that may be out of order
BuildFstAgain ==
    /\ mode = "direct"
    /\ index_pc = "sealed"
    /\ query_pc = "idle"
    /\ builds < MaxBuilds
    /\ \E d \in RebuildSlices :
          data' = d
    /\ file' = [exists |-> TRUE, sealed |-> FALSE, written |-> <<>>]
    /\ builder' = NewBuilder
    /\ next_insert' = 1
    /\ insert_calls' = 0
    /\ finish_called' = FALSE
    /\ builds' = builds + 1
    /\ index_pc' = "created"
    /\ UNCHANGED <<mode, min_frequency, filtered>>
    /\ UNCHANGED <<cleanVars, accumVars, scoreVars, queryVars, articleVars, readerVars, downloadVars>>

\* ngram.rs:70-72, main.rs:115-117: one iteration of the insert loop
BuildInsert ==
    /\ index_pc = "created"
    /\ next_insert <= Len(data)
    /\ LET key == data[next_insert][1]
           value == data[next_insert][2]
           accepted == BuilderAccepts(builder, key)
       IN  /\ builder' = IF accepted THEN BuilderInsert(builder, key, value) ELSE builder
           /\ index_pc' = AfterInsert(accepted)
    /\ file' = [file EXCEPT !.written = builder'.written]
    /\ insert_calls' = insert_calls + 1
    /\ next_insert' = next_insert + 1
    /\ UNCHANGED <<mode, min_frequency, filtered, data, finish_called, builds>>
    /\ UNCHANGED <<cleanVars, accumVars, scoreVars, queryVars, articleVars, readerVars, downloadVars>>

\* ngram.rs:74, main.rs:118: builder.finish() seals the file
BuildFinish ==
    /\ index_pc = "created"
    /\ next_insert > Len(data)
    /\ finish_called' = TRUE
    /\ file' = [exists |-> TRUE, sealed |-> TRUE, written |-> builder.written]
    /\ index_pc' = "sealed"
    /\ UNCHANGED <<mode, min_frequency, filtered, data, next_insert, builder, insert_calls,
                   builds>>
    /\ UNCHANGED <<cleanVars, accumVars, scoreVars, queryVars, articleVars, readerVars, downloadVars>>

---------------------------------------------------------------------------
(* The consumers of the sealed index: query_fst.rs:26-42,                  *)
(* ngram_fst_test.rs:45-51.  Keys are valid UTF-8, so from_utf8 succeeds   *)
(* and str::starts_with is the prefix relation on bytes.                   *)

\* s.starts_with(prefix)
StartsWith(key, p) == Len(p) <= Len(key) /\ SubSeq(key, 1, Len(p)) = p

\* the prefixes of the keys of KeyUniverse, "c", and "今日"
QueryPrefixes ==
    UNION {{SubSeq(k, 1, n) : n \in 0..Len(k)} : k \in KeyUniverse} \cup
    {<<99>>, <<228, 187, 138, 230, 151, 165>>}

\* the keys looked up: the keys of the universe and of the dummy index, and "a"
LookupKeys == KeyUniverse \cup {DummyData[i][1] : i \in 1..3} \cup {<<97>>}

\* query_fst.rs:30: map.range().ge(prefix).into_stream(): the position of
\* the first entry whose key is >= prefix
RangeGt(index, p) ==
    Cardinality({i \in 1..Len(index) : KeyLess(index[i][1], p) \/ index[i][1] = p}) + 1

RangeGe(index, p) ==
    Cardinality({i \in 1..Len(index) : KeyLess(index[i][1], p)}) + 1

\* fst::Map::get
MapGet(index, key) ==
    IF \E i \in 1..Len(index) : index[i][1] = key
    THEN <<"Some", index[CHOOSE i \in 1..Len(index) : index[i][1] = key][2]>>
    ELSE <<"None">>

\* query_fst.rs:42: entries.sort_by(|a, b| b.1.cmp(&a.1)), stable
RECURSIVE InsertByScore(_, _)
InsertByScore(sorted, e) ==
    IF sorted = <<>> THEN <<e>>
    ELSE IF e[2] > Head(sorted)[2] THEN <<e>> \o sorted
    ELSE <<Head(sorted)>> \o InsertByScore(Tail(sorted), e)

RECURSIVE SortByScoreFrom(_, _, _)
SortByScoreFrom(pairs, i, sorted) ==
    IF i > Len(pairs) THEN sorted
    ELSE SortByScoreFrom(pairs, i + 1, InsertByScore(sorted, pairs[i]))

SortByScoreDesc(pairs) == SortByScoreFrom(pairs, 1, <<>>)

NotGot == <<"none">>

QueryIdle ==
    /\ prefix = <<>>
    /\ stream = 1
    /\ entries = <<>>
    /\ got_key = <<>>
    /\ got = NotGot
    /\ query_pc = "idle"

\* query_fst.rs:26-31: open the sealed file, start the range cursor
QueryOpen ==
    /\ index_pc = "sealed"
    /\ file.sealed
    /\ query_pc = "idle"
    /\ \E p \in QueryPrefixes :
          /\ prefix' = p
          /\ stream' = RangeGe(file.written, p)
    /\ entries' = <<>>
    /\ query_pc' = "loop"
    /\ UNCHANGED <<got_key, got>>
    /\ UNCHANGED <<cleanVars, accumVars, scoreVars, indexVars, articleVars, readerVars, downloadVars>>

\* query_fst.rs:33-39: one iteration of `while let Some((key, value)) = stream.next()`
QueryNext ==
    /\ query_pc = "loop"
    /\ IF stream > Len(file.written)
       THEN /\ query_pc' = "collected"
            /\ UNCHANGED <<stream, entries>>
       ELSE LET e == file.written[stream]
            IN  IF ~StartsWith(e[1], prefix)
                THEN /\ query_pc' = "collected"
                     /\ stream' = stream + 1
                     /\ UNCHANGED entries
                ELSE /\ entries' = Append(entries, e)
                     /\ stream' = stream + 1
                     /\ UNCHANGED query_pc
    /\ UNCHANGED <<prefix, got_key, got>>
    /\ UNCHANGED <<cleanVars, accumVars, scoreVars, indexVars, articleVars, readerVars, downloadVars>>

\* query_fst.rs:42
QuerySort ==
    /\ query_pc = "collected"
    /\ entries' = SortByScoreDesc(entries)
    /\ query_pc' = "sorted"
    /\ UNCHANGED <<prefix, stream, got_key, got>>
    /\ UNCHANGED <<cleanVars, accumVars, scoreVars, indexVars, articleVars, readerVars, downloadVars>>

\* ngram_fst_test.rs:46: fst.get(ngram) on the reopened file
QueryGet ==
    /\ index_pc = "sealed"
    /\ file.sealed
    /\ query_pc = "idle"
    /\ \E key \in LookupKeys :
          /\ got_key' = key
          /\ got' = MapGet(file.written, key)
    /\ query_pc' = "got"
    /\ UNCHANGED <<prefix, stream, entries>>
    /\ UNCHANGED <<cleanVars, accumVars, scoreVars, indexVars, articleVars, readerVars, downloadVars>>

---------------------------------------------------------------------------
(* Specifications *)

InitClean == CleanInit /\ AccumIdle /\ ScoreIdle /\ IndexIdle /\ QueryIdle /\ ArticleIdle /\ ReaderIdle /\ DownloadIdle

NextClean == CleanScan \/ CleanReturn

SpecClean == InitClean /\ [][NextClean]_vars

InitLink == LinkInit /\ AccumIdle /\ ScoreIdle /\ IndexIdle /\ QueryIdle /\ ArticleIdle /\ ReaderIdle /\ DownloadIdle

NextLink == CleanScan \/ CleanReturn

SpecLink == InitLink /\ [][NextLink]_vars

InitArticle == ArticleInit /\ AccumInit /\ CleanIdle /\ ScoreIdle /\ IndexIdle /\ QueryIdle /\ ReaderIdle /\ DownloadIdle

NextArticle == ArticleStep \/ ArticleReturn

SpecArticle == InitArticle /\ [][NextArticle]_vars

InitReader == ReaderInit /\ AccumInit /\ CleanIdle /\ ArticleIdle /\ ScoreIdle /\ IndexIdle /\ QueryIdle /\ DownloadIdle

NextReader ==
    \/ ReadStart
    \/ ReadEnd
    \/ ReadText
    \/ ReadEof
    \/ ReadErr
    \/ ReadOther

SpecReader == InitReader /\ [][NextReader]_vars

InitDownload ==
    DownloadInit /\ CleanIdle /\ AccumIdle /\ ArticleIdle /\ ReaderIdle /\ ScoreIdle /\ IndexIdle /\ QueryIdle

NextDownload ==
    \/ DownloadCall
    \/ SendFails
    \/ CreateOutput
    \/ ReadChunk
    \/ TransferFails
    \/ DownloadComplete

SpecDownload == InitDownload /\ [][NextDownload]_vars

InitAccum == AccumInit /\ CleanIdle /\ ScoreIdle /\ IndexIdle /\ QueryIdle /\ ArticleIdle /\ ReaderIdle /\ DownloadIdle

NextAccum == ProcessSentence \/ PruneNgrams

SpecAccum == InitAccum /\ [][NextAccum]_vars

InitScore == ScoreInit /\ CleanIdle /\ AccumIdle /\ IndexIdle /\ QueryIdle /\ ArticleIdle /\ ReaderIdle /\ DownloadIdle

NextScore == ScoreBoth

SpecScore == InitScore /\ [][NextScore]_vars

InitIndex == IndexInit /\ QueryIdle /\ CleanIdle /\ ScoreIdle /\ ArticleIdle /\ ReaderIdle /\ DownloadIdle

NextIndex ==
    \/ FilterNgrams
    \/ BuildFstMain
    \/ BuildFstDirect
    \/ RunDummyMode
    \/ RunDummyModeAgain
    \/ BuildFstAgain
    \/ BuildInsert
    \/ BuildFinish
    \/ QueryOpen
    \/ QueryNext
    \/ QuerySort
    \/ QueryGet

SpecIndex == InitIndex /\ [][NextIndex]_vars

---------------------------------------------------------------------------
(* Claims about clean_wiki_markup *)

ContainsPair(t, a) == \E i \in 1..(Len(t) - 1) : t[i] = a /\ t[i + 1] = a

HasMarkup(t) == \E a \in {"{", "}", "[", "]"} : ContainsPair(t, a)

\* C9: a character scanned while the template depth is greater than 0 is
\* never appended to the output, whatever the link flag: a scan step taken
\* with in_template > 0 leaves result unchanged.
C9_TemplateCharsDropped ==
    [][(clean_pc = "scan" /\ in_template > 0) => result' = result]_vars

\* C10: for an input with none of the pairs {{ }} [[ ]], the cleaner returns
\* the input unchanged, and cleaning the output again changes nothing.
C10_PlainTextUnchanged ==
    (clean_pc = "done" /\ ~HasMarkup(text)) =>
        /\ result = text
        /\ clean_wiki_markup(result) = result

\* C10 witness: a finished scan of a plain text that holds single markup
\* characters and a pipe.
C10_Witness ==
    /\ clean_pc = "done"
    /\ ~HasMarkup(text)
    /\ Len(text) >= 4
    /\ \E i, j, k \in 1..Len(text) : text[i] = "{" /\ text[j] = "|" /\ text[k] = "]"

---------------------------------------------------------------------------
(* Claims about the frequency table *)

\* the number of windows of tokens, of the sizes 2..max_ngram, that join to key
WindowCount(tokens, max_n, key) ==
    Cardinality({w \in (2..max_n) \X (1..Len(tokens)) :
                    /\ w[2] + w[1] - 1 <= Len(tokens)
                    /\ Join(SubSeq(tokens, w[2], w[2] + w[1] - 1)) = key})

WindowKeys(tokens, max_n) ==
    {Join(SubSeq(tokens, w[2], w[2] + w[1] - 1)) :
        w \in {v \in (2..max_n) \X (1..Len(tokens)) : v[2] + v[1] - 1 <= Len(tokens)}}

RECURSIVE SumCounts(_, _)
SumCounts(table, keys) ==
    IF keys = {} THEN 0
    ELSE LET k == CHOOSE x \in keys : TRUE
         IN  table[k] + SumCounts(table, keys \ {k})

Total(table) == SumCounts(table, DOMAIN table)

RECURSIVE WindowsPerSize(_, _, _)
\* the sum over N in n..max_n of max(0, L - N + 1)
WindowsPerSize(L, n, max_n) ==
    IF n > max_n THEN 0
    ELSE (IF L - n + 1 > 0 THEN L - n + 1 ELSE 0) + WindowsPerSize(L, n + 1, max_n)

\* C5 as stated: after any call of prune_ngrams every remaining entry has
\* count >= 2.
C5_AfterAnyPrune ==
    last_op.op = "prune" => \A k \in DOMAIN ngram_counts : ngram_counts[k] >= 2

\* C5 amended: after a call of prune_ngrams on a table with more than
\* threshold_size entries every remaining entry has count >= 2; a call on a
\* table with at most threshold_size entries leaves the table as it was.
C5_PruneAboveThreshold ==
    last_op.op = "prune" =>
        IF Cardinality(DOMAIN prev_counts) > last_op.threshold_size
        THEN \A k \in DOMAIN ngram_counts : ngram_counts[k] >= 2
        ELSE ngram_counts = prev_counts

\* C5 witness: a prune that removed an entry of count 1 and kept another entry
C5_Witness ==
    /\ last_op.op = "prune"
    /\ Cardinality(DOMAIN prev_counts) > last_op.threshold_size
    /\ \E k \in DOMAIN prev_counts : prev_counts[k] = 1 /\ k \notin DOMAIN ngram_counts
    /\ DOMAIN ngram_counts # {}

\* C8: accumulating one sentence adds exactly one per window of each size
\* 2..max_ngram to the count of the window's joined key: max(0, L-N+1)
\* increments per N, L-1 for max_ngram = 2, and nothing for L < 2.
C8_OneIncrementPerWindow ==
    last_op.op = "extract" =>
        LET tokens == last_op.tokens
            m == max_ngram
            L == Len(last_op.tokens)
        IN  /\ \A key \in DOMAIN ngram_counts \cup DOMAIN prev_counts \cup WindowKeys(tokens, m) :
                  CountOf(ngram_counts, key) = CountOf(prev_counts, key) + WindowCount(tokens, m, key)
            /\ Total(ngram_counts) = Total(prev_counts) + WindowsPerSize(L, 2, m)
            /\ (m = 2 /\ L >= 1) => Total(ngram_counts) = Total(prev_counts) + (L - 1)
            /\ L < 2 => ngram_counts = prev_counts

\* C8 witness: a sentence whose bigram occurs twice, counted on top of an
\* earlier count of the same key
C8_Witness ==
    /\ last_op.op = "extract"
    /\ max_ngram = MaxNgram
    /\ Len(last_op.tokens) = MaxTokens
    /\ \E key \in DOMAIN prev_counts :
          /\ WindowCount(last_op.tokens, max_ngram, key) = 2
          /\ ngram_counts[key] = prev_counts[key] + 2

\* C17: over every interleaving of extract_ngrams_from_tokens and
\* prune_ngrams on one table, the count of a key that stays in the table
\* never decreases; a key leaves the table only in a call of prune_ngrams and
\* only while its count is exactly 1; a removed key that occurs again is
\* counted from nothing: its first occurrence gives it count 1, and after the
\* call its count is the number of its windows in that sentence.
C17_CountsGrowUntilPruned ==
    [][ /\ \A k \in DOMAIN ngram_counts \cap DOMAIN ngram_counts' :
              ngram_counts'[k] >= ngram_counts[k]
        /\ \A k \in DOMAIN ngram_counts \ DOMAIN ngram_counts' :
              /\ last_op'.op = "prune"
              /\ ngram_counts[k] = 1
        /\ \A k \in removed \ DOMAIN ngram_counts :
              /\ Increment(ngram_counts, k)[k] = 1
              /\ k \in DOMAIN ngram_counts' =>
                    /\ last_op'.op = "extract"
                    /\ ngram_counts'[k] = WindowCount(last_op'.tokens, max_ngram, k)
      ]_vars

\* C17 witness: a key counted, removed by prune_ngrams at count 1 while a key
\* of count 2 stayed, and counted again: it is back with count 1
C17_Witness ==
    /\ last_op.op = "extract"
    /\ \E k \in removed :
          /\ k \notin DOMAIN prev_counts
          /\ k \in DOMAIN ngram_counts
          /\ ngram_counts[k] = 1
    /\ \E k \in DOMAIN prev_counts : prev_counts[k] >= 2 /\ ngram_counts[k] >= prev_counts[k]

---------------------------------------------------------------------------
(* Claims about the score *)

\* C7: score monotonicity: for counts 1 <= c1 < c2 the scores satisfy
\* score(c1) <= score(c2), and score(1) = 0.
C7_ScoreMonotone ==
    score_pc = "scored" =>
        /\ count1 < count2 => score1 <= score2
        /\ count1 = 1 => score1 = 0

\* C7 witness: count 1 scored 0 beside a larger count with a larger score
\* (floor(1000*ln 2) = 693, floor(1000*ln 10) = 2302)
C7_Witness ==
    /\ score_pc = "scored"
    /\ \/ count1 = 1 /\ count2 = 2 /\ score1 = 0 /\ score2 = 693
       \/ count1 = 9 /\ count2 = 10 /\ score1 = 2197 /\ score2 = 2302

---------------------------------------------------------------------------
(* Claims about filter_ngrams, build_fst and the sealed index *)

StrictlyAscending(pairs) ==
    \A i \in 1..(Len(pairs) - 1) : KeyLess(pairs[i][1], pairs[i + 1][1])

KeysOf(pairs) == {pairs[i][1] : i \in 1..Len(pairs)}

BadPairs(pairs) ==
    {i \in 1..(Len(pairs) - 1) : ~KeyLess(pairs[i][1], pairs[i + 1][1])}

FirstBad(pairs) == CHOOSE i \in BadPairs(pairs) : \A j \in BadPairs(pairs) : i <= j

\* C1: whatever the iteration order of the map, the sequence returned by
\* filter_ngrams is strictly ascending by key in byte order (no duplicate
\* keys), and build_fst applied to it never fails on an ordering violation.
C1_FilteredStrictlyAscending ==
    mode = "main" => StrictlyAscending(filtered) /\ index_pc # "failed"

\* C1 witness: a filtered sequence of at least three entries, one key a
\* prefix of the next, built and sealed
C1_Witness ==
    /\ mode = "main"
    /\ index_pc = "sealed"
    /\ Len(filtered) >= 3
    /\ StartsWith(filtered[2][1], filtered[1][1])
    /\ file.written = filtered

\* C2: when the slice given to build_fst has an adjacent pair with
\* key[i] >= key[i+1], the insert of key[i+1] returns the error, no insert
\* follows it, finish is never called and the file is never sealed.
C2_OutOfOrderFails ==
    (index_pc \in {"created", "failed", "sealed"} /\ BadPairs(data) # {}) =>
        LET m == FirstBad(data)
        IN  /\ index_pc # "sealed"
            /\ ~finish_called
            /\ ~file.sealed
            /\ insert_calls <= m + 1
            /\ index_pc = "failed" <=> insert_calls = m + 1
            /\ index_pc = "failed" => builder.written = SubSeq(data, 1, m)

\* C2 witness: a build that failed on a duplicate key with a pair of the
\* slice still to insert
C2_Witness ==
    /\ index_pc = "failed"
    /\ Len(data) = 3
    /\ data[1][1] = data[2][1]
    /\ insert_calls = 2
    /\ ~file.sealed

ExpectedGet(pairs, key) ==
    IF \E i \in 1..Len(pairs) : pairs[i][1] = key
    THEN <<"Some", pairs[CHOOSE i \in 1..Len(pairs) : pairs[i][1] = key][2]>>
    ELSE <<"None">>

\* C3: round trip: after a strictly ascending slice was built and sealed
\* (by build_fst or run_dummy_mode), get(key) on the reopened file is
\* Some(value) for every pair of the slice and None for every other key.
C3_RoundTrip ==
    query_pc = "got" => got = ExpectedGet(data, got_key)

\* C3 witness: a lookup of the last of at least two pairs built, which
\* returned its value
C3_Witness ==
    /\ query_pc = "got"
    /\ Len(data) >= 2
    /\ got_key = data[Len(data)][1]
    /\ got = <<"Some", data[Len(data)][2]>>

\* C4: prefix search: the loop that starts the range cursor at the first
\* key >= P and stops at the first key that does not start with P collects
\* exactly the index entries whose key starts with P, each once, in
\* ascending byte order, and never a key without the prefix.
C4_PrefixSearchExact ==
    /\ query_pc \in {"loop", "collected"} =>
          \A i \in 1..Len(entries) : StartsWith(entries[i][1], prefix)
    /\ query_pc = "collected" =>
          LET HasPrefix(e) == StartsWith(e[1], prefix)
          IN  /\ entries = SelectSeq(file.written, HasPrefix)
              /\ StrictlyAscending(entries)

\* C4 witness: an index {.., P, P+x, Q, ..} searched for P: P and P+x are
\* collected and the loop stopped at Q
C4_Witness ==
    /\ query_pc = "collected"
    /\ Len(file.written) = 4
    /\ Len(entries) = 2
    /\ prefix = entries[1][1]
    /\ stream = 4

\* C6: filter_ngrams keeps an entry if and only if its count is strictly
\* greater than min_frequency, and leaves the table unchanged.
C6_KeepStrictlyAbove ==
    (mode = "main" /\ index_pc # "start") =>
        /\ KeysOf(filtered) = {k \in DOMAIN ngram_counts : ngram_counts[k] > min_frequency}
        /\ Len(filtered) = Cardinality(KeysOf(filtered))
        /\ ngram_counts = prev_counts

\* C6 witness: a table with an entry of count min_frequency, removed, and
\* one of count min_frequency + 1, kept
C6_Witness ==
    /\ mode = "main"
    /\ index_pc = "filtered"
    /\ min_frequency >= 1
    /\ \E k \in DOMAIN ngram_counts :
          ngram_counts[k] = min_frequency /\ k \notin KeysOf(filtered)
    /\ \E k \in DOMAIN ngram_counts :
          ngram_counts[k] = min_frequency + 1 /\ k \in KeysOf(filtered)

\* ngram_fst_test.rs:74: assert!(score < 1_000_000, ..)
ScoreCeiling == 1000000

\* C18: in every index built by filter_ngrams followed by build_fst with
\* min_frequency >= 1, every score s, in the filtered list, in the builder
\* and in the file, satisfies 0 < s < 1,000,000.
C18_ScoresInRange ==
    (mode = "main" /\ min_frequency >= 1) =>
        \A seq \in {filtered, data, builder.written, file.written} :
            \A i \in 1..Len(seq) : 0 < seq[i][2] /\ seq[i][2] < ScoreCeiling

\* C18 witness: a sealed index of the pipeline, min_frequency >= 1, holding
\* the score of the smallest count kept and that of a larger count
C18_Witness ==
    /\ mode = "main"
    /\ min_frequency >= 1
    /\ index_pc = "sealed"
    /\ \E i, j \in 1..Len(file.written) :
          /\ file.written[i][2] = Score(min_frequency + 1)
          /\ file.written[j][2] > file.written[i][2]
    /\ \E k \in DOMAIN ngram_counts : ngram_counts[k] = min_frequency

\* C15: once build_fst has sealed the index file at a path, the bytes of
\* that file are never changed by a later operation of the pipeline; a
\* rebuild on the same path does not truncate or overwrite it.
C15_SealedFileNeverChanges ==
    [][file.sealed => file' = file]_vars

\* C16: for a piped link [[T|D]] outside any template, with T and D free of
\* braces, brackets and pipes, the output of clean_wiki_markup is exactly D:
\* the target, the pipe and the brackets are dropped.
C16_PipedLinkKeepsDisplayOnly ==
    clean_pc = "done" =>
        \A target \in LinkParts, display \in LinkParts :
            text = PipedLink(target, display) => result = display

\* C11: the sentence segmenter discards every piece whose trimmed length is
\* under 3 characters and hands every piece of 3 or more characters to the
\* tokenizer, multi-byte pieces such as a single ideograph included.
C11_ShortPiecesDiscarded ==
    \A i \in 1..Len(segmented) :
        segmented[i].tokenized <=> Len(segmented[i].sentence) >= MinSentenceLen

---------------------------------------------------------------------------
(* Claims about the corpus reader *)

\* C12: with the article cap set to L, process_wikipedia processes at most L
\* articles, for every L >= 0 and every stream.
C12_AtMostLimitArticles ==
    limit # NoLimit => article_count <= limit /\ Len(processed) <= limit

\* the token sequences of the sentences of a text that reach the tokenizer
RECURSIVE SentencesFrom(_, _)
SentencesFrom(pieces, i) ==
    IF i > Len(pieces) THEN <<>>
    ELSE (IF TooShort(Trim(pieces[i])) THEN <<>> ELSE <<tokenize_text(Trim(pieces[i]))>>)
         \o SentencesFrom(pieces, i + 1)

\* the sentences of all the texts, from text i on
RECURSIVE AllSentences(_, _)
AllSentences(texts, i) ==
    IF i > Len(texts) THEN <<>>
    ELSE SentencesFrom(Split(texts[i]), 1) \o AllSentences(texts, i + 1)

\* the number of windows equal to key in the sentences from i on
RECURSIVE WindowsIn(_, _, _, _)
WindowsIn(sentences, i, max_n, key) ==
    IF i > Len(sentences) THEN 0
    ELSE WindowCount(sentences[i], max_n, key) + WindowsIn(sentences, i + 1, max_n, key)

\* table holds, for every key, the number of its windows in the sentences
\* of the texts, and no other key
CountsWindowsOf(table, texts, max_n) ==
    LET sentences == AllSentences(texts, 1)
    IN  /\ DOMAIN table = UNION {WindowKeys(sentences[i], max_n) : i \in 1..Len(sentences)}
        /\ \A key \in DOMAIN table : table[key] = WindowsIn(sentences, 1, max_n, key)

\* C13: on an XML parse error process_wikipedia reads no further event and
\* returns Ok with the table holding exactly the counts of every article
\* whose closing text tag was read before the error.
C13_ErrorReturnsCountsSoFar ==
    [][ /\ stopped = "error" => FALSE
        /\ stopped' = "error" =>
              /\ reader_pc' = "done"
              /\ reader_result' = "Ok"
              /\ ngram_counts' = ngram_counts
              /\ CountsWindowsOf(ngram_counts, processed, max_ngram)
      ]_vars

\* C13 witness: the error came after one article was processed and while the
\* text of another was being accumulated; the counts of the first are returned
C13_Witness ==
    /\ stopped = "error"
    /\ reader_result = "Ok"
    /\ Len(processed) = 1
    /\ in_text
    /\ current_text # <<>>
    /\ ngram_counts # <<>>

\* the fragments as read, un-escaped where that succeeds, joined in order
RECURSIVE ConcatRead(_)
ConcatRead(fs) ==
    IF fs = <<>> THEN <<>>
    ELSE (IF Unescape(fs[1]).ok THEN Unescape(fs[1]).text ELSE fs[1]) \o ConcatRead(Tail(fs))

\* the un-escaped text of the fragments whose un-escaping succeeds, joined in order
RECURSIVE ConcatUnescaped(_)
ConcatUnescaped(fs) ==
    IF fs = <<>> THEN <<>>
    ELSE (IF Unescape(fs[1]).ok THEN Unescape(fs[1]).text ELSE <<>>) \o ConcatUnescaped(Tail(fs))

C19_CountsAreWindowTotals ==
    [][ /\ \A k \in DOMAIN ngram_counts :
              k \in DOMAIN ngram_counts' /\ ngram_counts'[k] >= ngram_counts[k]
        /\ reader_pc' = "done" =>
              /\ CountsWindowsOf(ngram_counts', processed', max_ngram)
              /\ \A k \in DOMAIN ngram_counts' : ngram_counts'[k] >= 1
      ]_vars

\* C19 witness: a run that returned after two articles, with a key counted
\* in both and a key counted once
C19_Witness ==
    /\ reader_pc = "done"
    /\ Len(processed) = 2
    /\ \E k \in DOMAIN ngram_counts : ngram_counts[k] = 1
    /\ \E k \in DOMAIN ngram_counts : ngram_counts[k] >= 2

---------------------------------------------------------------------------
(* Claims about the corpus source *)

\* C20: after any sequence of download_wikipedia calls on one cache
\* directory, calls that fail partway included, whenever a call returns the
\* cached path without downloading, the file there holds the complete
\* archive.
C20_CachedFileIsComplete ==
    download_result = "cached" => cache_file.exists /\ cache_file.chunks = total_size

=============================================================================
